---- MODULE Spec2Model ----
(***************************************************************************)
(* A model of app/parking_feed.py (the description parser, the entry      *)
(* normaliser, the sort and the TTL cache FeedCache) and of the two       *)
(* routes of app/main.py that call FeedCache.get() on one shared cache.   *)
(*                                                                         *)
(* Python strings are sequences of one-character strings.  An Optional    *)
(* value is a sequence of length at most one: <<>> is None, <<v>> is v.   *)
(***************************************************************************)
EXTENDS Integers, Sequences, FiniteSets, TLC

(***************************************************************************)
(* Bounds of the model.                                                    *)
(***************************************************************************)
\* longest description string enumerated for the parser
MaxLen == 4
\* most entries in one feed batch given to the normaliser
MaxEntries == 3
\* the clock runs from MinClock to MaxClock
MaxClock == 2
\* largest ttl_seconds a cache is constructed with
MaxTtl == 1
\* most fetches (and so list objects allocated) in one run
MaxFetches == 2

(***************************************************************************)
(* Characters and Python's str methods.                                    *)
(***************************************************************************)
None == <<>>

Some(v) == <<v>>

\* the characters of the model in ascending code point order
CodePoints ==
    << "\t", "\n", " ", "+", "-", "/",
       "0", "1", "2", "3", "4", "5", "6", "7", "8", "9", "?",
       "A", "B", "C", "D", "E", "F", "G", "H", "I", "J", "K", "L", "M",
       "N", "O", "P", "Q", "R", "S", "T", "U", "V", "W", "X", "Y", "Z", "_",
       "a", "b", "c", "d", "e", "f", "g", "h", "i", "j", "k", "l", "m",
       "n", "o", "p", "q", "r", "s", "t", "u", "v", "w", "x", "y", "z" >>

Ord(c) == CHOOSE i \in 1..Len(CodePoints) : CodePoints[i] = c

UpperChars ==
    << "A", "B", "C", "D", "E", "F", "G", "H", "I", "J", "K", "L", "M",
       "N", "O", "P", "Q", "R", "S", "T", "U", "V", "W", "X", "Y", "Z" >>

LowerChars ==
    << "a", "b", "c", "d", "e", "f", "g", "h", "i", "j", "k", "l", "m",
       "n", "o", "p", "q", "r", "s", "t", "u", "v", "w", "x", "y", "z" >>

IsUpper(c) == \E i \in 1..Len(UpperChars) : UpperChars[i] = c

LowerChar(c) ==
    IF IsUpper(c)
    THEN LowerChars[CHOOSE i \in 1..Len(UpperChars) : UpperChars[i] = c]
    ELSE c

\* str.lower()
Lower(s) == [i \in 1..Len(s) |-> LowerChar(s[i])]

IsSpace(c) == c \in {" ", "\t", "\n"}

RECURSIVE LStrip(_)
LStrip(s) ==
    IF s # <<>> /\ IsSpace(Head(s)) THEN LStrip(Tail(s)) ELSE s

RECURSIVE RStrip(_)
RStrip(s) ==
    IF s # <<>> /\ IsSpace(s[Len(s)])
    THEN RStrip(SubSeq(s, 1, Len(s) - 1))
    ELSE s

\* str.strip()
Strip(s) == RStrip(LStrip(s))

\* str.split(sep) for a one-character separator: always at least one part
RECURSIVE Split(_, _)
Split(s, sep) ==
    IF \A i \in 1..Len(s) : s[i] # sep
    THEN << s >>
    ELSE LET k == CHOOSE i \in 1..Len(s) :
                      s[i] = sep /\ \A j \in 1..(i - 1) : s[j] # sep
         IN  << SubSeq(s, 1, k - 1) >> \o Split(SubSeq(s, k + 1, Len(s)), sep)

\* a test for the first character of the needle alone
ContainsFirst(s, a, b) == \E i \in 1..Len(s) : s[i] = a

\* needle in s, for a needle of two characters
Contains2(s, a, b) == \E i \in 1..(Len(s) - 1) : s[i] = a /\ s[i + 1] = b

Digits == << "0", "1", "2", "3", "4", "5", "6", "7", "8", "9" >>

IsDigit(c) == \E i \in 1..10 : Digits[i] = c

DigitVal(c) == (CHOOSE i \in 1..10 : Digits[i] = c) - 1

\* digits with single underscores between them, as int() accepts
IsDigitString(s) ==
    /\ s # <<>>
    /\ \A i \in 1..Len(s) : IsDigit(s[i]) \/ s[i] = "_"
    /\ IsDigit(s[1])
    /\ IsDigit(s[Len(s)])
    /\ \A i \in 1..(Len(s) - 1) : ~(s[i] = "_" /\ s[i + 1] = "_")

RECURSIVE DecimalValue(_)
DecimalValue(s) ==
    IF s = <<>> THEN 0
    ELSE IF s[Len(s)] = "_" THEN DecimalValue(SubSeq(s, 1, Len(s) - 1))
    ELSE 10 * DecimalValue(SubSeq(s, 1, Len(s) - 1)) + DigitVal(s[Len(s)])

\* int(str): surrounding whitespace, an optional sign, then digits;
\* anything else raises ValueError
PyInt(s) ==
    LET t == Strip(s)
        signed == t # <<>> /\ t[1] \in {"+", "-"}
        body == IF signed THEN Tail(t) ELSE t
    IN  IF IsDigitString(body)
        THEN [exc |-> "none",
              val |-> IF signed /\ t[1] = "-"
                      THEN 0 - DecimalValue(body)
                      ELSE DecimalValue(body)]
        ELSE [exc |-> "ValueError", val |-> 0]

\* a handler that catches TypeError only
CaughtTypeErrorOnly(exc) == exc = "TypeError"

\* the exception classes the handler "except Exception" catches
CaughtByExcept(exc) == exc \in {"ValueError", "TypeError", "OverflowError"}

unknown == << "u", "n", "k", "n", "o", "w", "n" >>

\* parking_feed.py _parse_description: the outcome is the exception that
\* leaves the function ("none" when it returns) and the returned pair
_parse_description(desc) ==
    IF desc = <<>>
    THEN [exc |-> "none", status |-> unknown, free |-> None]
    ELSE
      LET parts == LET raw == Split(desc, "/")
                   IN  [i \in 1..Len(raw) |-> Strip(raw[i])]
      IN  IF Len(parts) # 2
          THEN [exc |-> "none",
                status |-> IF Lower(Strip(desc)) # <<>>
                           THEN Lower(Strip(desc)) ELSE unknown,
                free |-> None]
          ELSE
            LET status_raw == parts[1]
                spaces_raw == parts[2]
                status == IF Contains2(status_raw, "?", "?")
                          THEN unknown ELSE Lower(status_raw)
                n == PyInt(spaces_raw)
            IN  IF n.exc = "none"
                THEN [exc |-> "none", status |-> status, free |-> Some(n.val)]
                ELSE IF CaughtByExcept(n.exc)
                THEN [exc |-> "none", status |-> status, free |-> None]
                ELSE [exc |-> n.exc, status |-> status, free |-> None]

(***************************************************************************)
(* Feed entries and their conversion to ParkingLot records.                *)
(* An entry is a record of Optional fields (feedparser gives no attribute  *)
(* for a field the feed lacks); published_parsed holds the UTC seconds the *)
(* struct_time denotes.                                                    *)
(***************************************************************************)
Entry(title, link, description, published_parsed) ==
    [title |-> title, link |-> link, description |-> description,
     published_parsed |-> published_parsed]

\* getattr(e, name, default) on an Optional field
GetAttr(field, default) == IF field = None THEN default ELSE field[1]

\* largest struct_time the platform's mktime converts
MaxTimeT == 200

\* time.mktime(t): t read as local time; out of range raises OverflowError
Mktime(t, utc_offset) ==
    IF t > MaxTimeT
    THEN [exc |-> "OverflowError", val |-> 0]
    ELSE [exc |-> "none", val |-> t - utc_offset]

\* largest timestamp a datetime holds (year 9999)
MaxDatetime == 150

\* datetime.fromtimestamp(ts, tz=timezone.utc): the aware datetime, held as
\* its UTC seconds; a year out of range raises ValueError
FromTimestamp(ts) ==
    IF ts > MaxDatetime
    THEN [exc |-> "ValueError", val |-> 0]
    ELSE [exc |-> "none", val |-> ts]

\* parking_feed.py _parse_dt: no try around line 64, so what the two calls
\* raise leaves the function
_parse_dt(entry, utc_offset) ==
    LET t == entry.published_parsed
    IN  IF t = None
        THEN [exc |-> "none", dt |-> None]
        ELSE LET m == Mktime(t[1], utc_offset)
             IN  IF m.exc # "none"
                 THEN [exc |-> m.exc, dt |-> None]
                 ELSE LET d == FromTimestamp(m.val)
                      IN  IF d.exc # "none"
                          THEN [exc |-> d.exc, dt |-> None]
                          ELSE [exc |-> "none", dt |-> Some(d.val)]

\* the body of the loop of FeedCache.get: one entry to one ParkingLot
ToParkingLot(e, utc_offset) ==
    LET d == _parse_description(GetAttr(e.description, <<>>))
        u == _parse_dt(e, utc_offset)
    IN  [exc |-> IF d.exc # "none" THEN d.exc ELSE u.exc,
         lot |-> [name |-> Strip(GetAttr(e.title, <<>>)),
                  link |-> Strip(GetAttr(e.link, <<>>)),
                  status |-> d.status,
                  free_spaces |-> d.free,
                  updated_at |-> u.dt]]

\* the loop of FeedCache.get: the lots in feed order, or the first exception
RECURSIVE ToParkingLots(_, _)
ToParkingLots(entries, utc_offset) ==
    IF entries = <<>>
    THEN [exc |-> "none", lots |-> <<>>]
    ELSE LET h == ToParkingLot(Head(entries), utc_offset)
         IN  IF h.exc # "none"
             THEN [exc |-> h.exc, lots |-> <<>>]
             ELSE LET r == ToParkingLots(Tail(entries), utc_offset)
                  IN  [exc |-> r.exc,
                       lots |-> IF r.exc = "none"
                                THEN << h.lot >> \o r.lots ELSE <<>>]

(***************************************************************************)
(* The sort of FeedCache.get.                                              *)
(***************************************************************************)
open == << "o", "p", "e", "n" >>

\* Python's < on str: lexicographic by code point
RECURSIVE StrLess(_, _)
StrLess(a, b) ==
    IF b = <<>> THEN FALSE
    ELSE IF a = <<>> THEN TRUE
    ELSE IF a[1] # b[1] THEN Ord(a[1]) < Ord(b[1])
    ELSE StrLess(Tail(a), Tail(b))

open_rank(x) == IF x.status = open THEN 0 ELSE 1

\* the sign of line 104 lost: ascending free spaces
free_rank_ascending(x) ==
    IF x.free_spaces # None THEN x.free_spaces[1] ELSE 0 - 1

\* an absent count taken for more than any count of the feed
free_rank_absent_first(x) ==
    0 - (IF x.free_spaces # None THEN x.free_spaces[1] ELSE 1000)

free_rank(x) ==
    0 - (IF x.free_spaces # None THEN x.free_spaces[1] ELSE 0 - 1)

\* FeedCache.get.sort_key
sort_key(x) == << open_rank(x), free_rank(x), Lower(x.name) >>

\* Python's < on the key tuples
KeyLess(k1, k2) ==
    \/ k1[1] < k2[1]
    \/ k1[1] = k2[1] /\ k1[2] < k2[2]
    \/ k1[1] = k2[1] /\ k1[2] = k2[2] /\ StrLess(k1[3], k2[3])

\* x inserted into the sorted s after every element whose key is not greater
RECURSIVE InsertSorted(_, _)
InsertSorted(x, s) ==
    IF s = <<>> THEN << x >>
    ELSE IF KeyLess(sort_key(x), sort_key(Head(s)))
    THEN << x >> \o s
    ELSE << Head(s) >> \o InsertSorted(x, Tail(s))

\* lots.sort(key=sort_key): a stable sort, ascending by key
RECURSIVE SortLots(_)
SortLots(s) ==
    IF s = <<>> THEN <<>>
    ELSE InsertSorted(s[Len(s)], SortLots(SubSeq(s, 1, Len(s) - 1)))

\* lines 82-107 of FeedCache.get applied to the entries the fetch gave
Normalize(entries, utc_offset) ==
    LET c == ToParkingLots(entries, utc_offset)
    IN  [exc |-> c.exc,
         lots |-> IF c.exc = "none" THEN SortLots(c.lots) ELSE <<>>]

(***************************************************************************)
(* State.                                                                  *)
(***************************************************************************)
VARIABLES
    ttl_seconds,    \* FeedCache.ttl_seconds
    expires_at,     \* FeedCache._expires_at
    value,          \* FeedCache._value: a reference to a list object
    heap,           \* the contents of the list objects, by reference
    nalloc,         \* the number of list objects get() has allocated
    clock,          \* what time.time() returns
    utc_offset,     \* the local time zone's offset from UTC
    pc,             \* where each request is in its route and in get()
    now,            \* get()'s local now, per request
    parsed,         \* get()'s local parsed (its entries), per request
    lots,           \* get()'s local lots, a reference, per request
    ret,            \* the reference get() returned to the route
    expires_src,    \* history: the list whose get() call set expires_at
    seen,           \* history: the cache state when a call read expires_at
    nfetch,         \* history: feed fetches made by the current call
    fetch_log,      \* history: every fetch so far, in the order they ran
    desc,           \* the input of _parse_description
    parsed_desc,    \* the outcome of _parse_description(desc)
    feed,           \* the entries given to the normaliser
    normalized      \* the outcome of Normalize(feed)

cache_vars == << ttl_seconds, expires_at, value, heap, nalloc, clock,
                 pc, now, parsed, lots, ret, expires_src, seen, nfetch,
                 fetch_log >>

pure_vars == << desc, parsed_desc, feed, normalized >>

vars == << cache_vars, utc_offset, pure_vars >>

\* the requests in flight: one per route of main.py
Threads == {"index", "fragment_parkinglots"}

MinClock == 0 - 1

\* the list object FeedCache.__init__ creates
InitRef == 0

Char1(c) == << c >>

\* feed entries the cache specifications fetch
E_open5 ==
    Entry(Some(Char1("A")), Some(Char1("u")),
          Some(<< "o", "p", "e", "n", " ", "/", " ", "5" >>), None)

E_overflow ==
    Entry(Some(Char1("C")), None, None, Some(MaxTimeT + 1))

\* what feedparser.parse(FEED_URL).entries may be in the cache specifications
CacheBatches ==
    { <<>>, << E_open5 >>, << E_overflow >> }

(***************************************************************************)
(* FeedCache.__init__ and FeedCache.get, one action per shared-state step. *)
(***************************************************************************)
\* the comparison of line 78 with its operands exchanged
FreshReversed(n, e) == e < n

\* the comparison of line 78 with the boundary included
FreshInclusive(n, e) == n <= e

\* line 78, left operand: now < self._expires_at
Fresh(n, e) == n < e

\* line 78 without its right operand
TruthyAlways(s) == TRUE

\* line 78, right operand: the truth value of the list self._value
Truthy(s) == s # <<>>

\* line 110 without the time to live
NewExpiryNoTtl(n, ttl) == n

\* line 110: now + self.ttl_seconds
NewExpiry(n, ttl) == n + ttl

\* reference counting: a list object nothing refers to any more is freed
Collect(h, v, ls, rs) ==
    [r \in DOMAIN h |->
        IF r = v \/ \E t \in Threads : ls[t] = << r >> \/ rs[t] = << r >>
        THEN h[r] ELSE <<>>]

PureIdle ==
    /\ desc = <<>>
    /\ parsed_desc = None
    /\ feed = <<>>
    /\ normalized = None

\* FeedCache.__init__, with the clock reading c at that time
Construct(c) ==
    /\ ttl_seconds \in 0..MaxTtl
    /\ expires_at = 0
    /\ value = InitRef
    /\ heap = [r \in 0..MaxFetches |-> <<>>]
    /\ nalloc = 0
    /\ clock = c
    /\ utc_offset = 0
    /\ pc = [t \in Threads |-> "idle"]
    /\ now = [t \in Threads |-> None]
    /\ parsed = [t \in Threads |-> None]
    /\ lots = [t \in Threads |-> None]
    /\ ret = [t \in Threads |-> None]
    /\ expires_src = InitRef
    /\ seen = [t \in Threads |-> None]
    /\ nfetch = [t \in Threads |-> 0]
    /\ fetch_log = <<>>
    /\ PureIdle

\* main.py line 14: cache = FeedCache(ttl_seconds=...)
Init == Construct(0)

\* time passes
Tick ==
    /\ clock < MaxClock
    /\ clock' = clock + 1
    /\ UNCHANGED << ttl_seconds, expires_at, value, heap, nalloc, pc, now,
                    parsed, lots, ret, expires_src, seen, nfetch,
                    fetch_log, utc_offset, pure_vars >>

\* line 76: now = time.time()
ReadClock(t) ==
    /\ pc[t] = "idle"
    /\ now' = [now EXCEPT ![t] = Some(clock)]
    /\ pc' = [pc EXCEPT ![t] = "check_expires"]
    /\ UNCHANGED << ttl_seconds, expires_at, value, heap, nalloc, clock,
                    parsed, lots, ret, expires_src, seen, nfetch,
                    fetch_log, utc_offset, pure_vars >>

\* line 78: now < self._expires_at
CheckExpires(t) ==
    /\ pc[t] = "check_expires"
    /\ pc' = [pc EXCEPT ![t] =
                IF Fresh(now[t][1], expires_at) THEN "check_value" ELSE "fetch"]
    /\ seen' = [seen EXCEPT ![t] =
                  Some([expires_at |-> expires_at, src |-> expires_src,
                        value |-> value, stored |-> heap[value]])]
    /\ UNCHANGED << ttl_seconds, expires_at, value, heap, nalloc, clock, now,
                    parsed, lots, ret, expires_src, nfetch,
                    fetch_log, utc_offset, pure_vars >>

\* line 78: and self._value
CheckValue(t) ==
    /\ pc[t] = "check_value"
    /\ pc' = [pc EXCEPT ![t] =
                IF Truthy(heap[value]) THEN "return_value" ELSE "fetch"]
    /\ UNCHANGED << ttl_seconds, expires_at, value, heap, nalloc, clock, now,
                    parsed, lots, ret, expires_src, seen, nfetch,
                    fetch_log, utc_offset, pure_vars >>

\* line 79: return self._value
ReturnValue(t) ==
    /\ pc[t] = "return_value"
    /\ ret' = [ret EXCEPT ![t] = Some(value)]
    /\ pc' = [pc EXCEPT ![t] = "hit"]
    /\ UNCHANGED << ttl_seconds, expires_at, value, heap, nalloc, clock, now,
                    parsed, lots, expires_src, seen, nfetch,
                    fetch_log, utc_offset, pure_vars >>

\* lines 82-107 filling the cached list itself: self._value is bound to the
\* new list before the loop, so a conversion that raises leaves it there
FetchIntoCache(t, batches) ==
    /\ pc[t] = "fetch"
    /\ Len(fetch_log) < MaxFetches
    /\ \E b \in batches :
         LET n == Normalize(b, utc_offset)
         IN  /\ parsed' = [parsed EXCEPT ![t] = Some(b)]
             /\ nalloc' = nalloc + 1
             /\ fetch_log' = Append(fetch_log,
                     [start |-> now[t][1], ref |-> nalloc + 1,
                      n |-> IF n.exc = "none" THEN Len(n.lots) ELSE 0 - 1])
             /\ value' = nalloc + 1
             /\ heap' = [heap EXCEPT ![nalloc + 1] = n.lots]
             /\ IF n.exc = "none"
                THEN /\ lots' = [lots EXCEPT ![t] = Some(nalloc + 1)]
                     /\ pc' = [pc EXCEPT ![t] = "store_value"]
                ELSE /\ pc' = [pc EXCEPT ![t] = "raised"]
                     /\ UNCHANGED lots
    /\ nfetch' = [nfetch EXCEPT ![t] = @ + 1]
    /\ UNCHANGED << ttl_seconds, expires_at, clock, now, ret,
                    expires_src, seen, utc_offset, pure_vars >>

\* lines 82-107: the fetch gives a batch; it is converted and sorted into a
\* new list object, or the conversion raises
Fetch(t, batches) ==
    /\ pc[t] = "fetch"
    /\ Len(fetch_log) < MaxFetches
    /\ \E b \in batches :
         LET n == Normalize(b, utc_offset)
         IN  /\ parsed' = [parsed EXCEPT ![t] = Some(b)]
             /\ nalloc' = nalloc + 1
             /\ fetch_log' = Append(fetch_log,
                     [start |-> now[t][1], ref |-> nalloc + 1,
                      n |-> IF n.exc = "none" THEN Len(n.lots) ELSE 0 - 1])
             /\ IF n.exc = "none"
                THEN /\ heap' = [heap EXCEPT ![nalloc + 1] = n.lots]
                     /\ lots' = [lots EXCEPT ![t] = Some(nalloc + 1)]
                     /\ pc' = [pc EXCEPT ![t] = "store_value"]
                ELSE /\ pc' = [pc EXCEPT ![t] = "raised"]
                     /\ UNCHANGED << heap, lots >>
    /\ nfetch' = [nfetch EXCEPT ![t] = @ + 1]
    /\ UNCHANGED << ttl_seconds, expires_at, value, clock, now, ret,
                    expires_src, seen, utc_offset, pure_vars >>

\* line 82: feedparser.parse(FEED_URL) raises (a transport error it does not
\* catch); get() ends there
FetchRaises(t) ==
    /\ pc[t] = "fetch"
    /\ Len(fetch_log) < MaxFetches
    /\ fetch_log' = Append(fetch_log,
            [start |-> now[t][1], ref |-> 0 - 1, n |-> 0 - 1])
    /\ nfetch' = [nfetch EXCEPT ![t] = @ + 1]
    /\ pc' = [pc EXCEPT ![t] = "raised"]
    /\ UNCHANGED << ttl_seconds, expires_at, value, heap, nalloc, clock, now,
                    parsed, lots, ret, expires_src, seen, utc_offset,
                    pure_vars >>

\* line 109: self._value = lots
StoreValue(t) ==
    /\ pc[t] = "store_value"
    /\ value' = lots[t][1]
    /\ heap' = Collect(heap, value', lots, ret)
    /\ pc' = [pc EXCEPT ![t] = "store_expires"]
    /\ UNCHANGED << ttl_seconds, expires_at, nalloc, clock, now,
                    parsed, lots, ret, expires_src, seen, nfetch,
                    fetch_log, utc_offset, pure_vars >>

\* lines 110-111: self._expires_at = now + self.ttl_seconds; return lots
StoreExpires(t) ==
    /\ pc[t] = "store_expires"
    /\ expires_at' = NewExpiry(now[t][1], ttl_seconds)
    /\ expires_src' = lots[t][1]
    /\ ret' = [ret EXCEPT ![t] = lots[t]]
    /\ pc' = [pc EXCEPT ![t] = "miss"]
    /\ UNCHANGED << ttl_seconds, value, heap, nalloc, clock, now,
                    parsed, lots, seen, nfetch, fetch_log, utc_offset,
                    pure_vars >>

\* main.py lines 20-26 and 33-39: the route renders what get() returned (or
\* the exception leaves the route) and the request ends
Finish(t) ==
    /\ pc[t] \in {"hit", "miss", "raised"}
    /\ pc' = [pc EXCEPT ![t] = "idle"]
    /\ now' = [now EXCEPT ![t] = None]
    /\ parsed' = [parsed EXCEPT ![t] = None]
    /\ lots' = [lots EXCEPT ![t] = None]
    /\ ret' = [ret EXCEPT ![t] = None]
    /\ seen' = [seen EXCEPT ![t] = None]
    /\ nfetch' = [nfetch EXCEPT ![t] = 0]
    /\ heap' = Collect(heap, value, lots', ret')
    /\ UNCHANGED << ttl_seconds, expires_at, value, nalloc, clock,
                    expires_src, fetch_log, utc_offset, pure_vars >>

\* one step of the request t once it is inside get()
Continue(t) ==
    \/ CheckExpires(t)
    \/ CheckValue(t)
    \/ ReturnValue(t)
    \/ Fetch(t, CacheBatches)
    \/ FetchRaises(t)
    \/ StoreValue(t)
    \/ StoreExpires(t)
    \/ Finish(t)

\* the application: both routes served concurrently on the shared cache
Next == Tick \/ \E t \in Threads : ReadClock(t) \/ Continue(t)

Spec == Init /\ [][Next]_vars

\* sequential use: a request starts only when no other is in flight
OthersIdle(t) == \A u \in Threads \ {t} : pc[u] = "idle"

ReadClockAlone(t) == OthersIdle(t) /\ ReadClock(t)

InitSeq == Construct(MinClock)

NextSeq == Tick \/ \E t \in Threads : ReadClockAlone(t) \/ Continue(t)

SpecSeq == InitSeq /\ [][NextSeq]_vars

(***************************************************************************)
(* A caller of the API that operates on the list get() returned: the list  *)
(* is the object self._value refers to (lines 79 and 109-111 return it     *)
(* without a copy), so list.pop() on it acts on the cached list.           *)
(***************************************************************************)
CallerPop(t) ==
    /\ pc[t] \in {"hit", "miss"}
    /\ heap[ret[t][1]] # <<>>
    /\ heap' = [heap EXCEPT ![ret[t][1]] = SubSeq(@, 1, Len(@) - 1)]
    /\ UNCHANGED << ttl_seconds, expires_at, value, nalloc, clock, pc, now,
                    parsed, lots, ret, expires_src, seen, nfetch,
                    fetch_log, utc_offset, pure_vars >>

NextClient == NextSeq \/ \E t \in Threads : CallerPop(t)

SpecClient == InitSeq /\ [][NextClient]_vars

(***************************************************************************)
(* _parse_description as a function of its input.                          *)
(***************************************************************************)
DescAlphabet == {"O", "o", " ", "/", "?", "4", "-", "_"}

\* the examples of the docstring and of the feed
DescExamples ==
    { <<>>,
      << "o", "p", "e", "n", " ", "/", " ", "4", "3" >>,
      << "?", "?", "?", "?", " ", "/", " ", "?", "?", "?" >>,
      << "c", "l", "o", "s", "e", "d" >>,
      << "C", "L", "O", "S", "E", "D", " ", "/", " ", "n", "o", "t", "-", "a", "-", "n", "u", "m", "b", "e", "r" >> }

DescInputs ==
    DescExamples \cup UNION {[1..n -> DescAlphabet] : n \in 0..MaxLen}

\* no cache is in use while a pure function is applied
CacheIdle ==
    /\ ttl_seconds = 0
    /\ expires_at = 0
    /\ value = InitRef
    /\ heap = [r \in 0..MaxFetches |-> <<>>]
    /\ nalloc = 0
    /\ clock = 0
    /\ pc = [t \in Threads |-> "idle"]
    /\ now = [t \in Threads |-> None]
    /\ parsed = [t \in Threads |-> None]
    /\ lots = [t \in Threads |-> None]
    /\ ret = [t \in Threads |-> None]
    /\ expires_src = InitRef
    /\ seen = [t \in Threads |-> None]
    /\ nfetch = [t \in Threads |-> 0]
    /\ fetch_log = <<>>

InitParse ==
    /\ CacheIdle
    /\ utc_offset = 0
    /\ desc \in DescInputs
    /\ parsed_desc = None
    /\ feed = <<>>
    /\ normalized = None

\* line 89: _parse_description(desc) is called
ParseDescription ==
    /\ parsed_desc = None
    /\ parsed_desc' = Some(_parse_description(desc))
    /\ UNCHANGED << cache_vars, utc_offset, desc, feed, normalized >>

SpecParse == InitParse /\ [][ParseDescription]_vars

(***************************************************************************)
(* The normaliser (conversion and sort) as a function of the feed batch.   *)
(***************************************************************************)
P_closed10 == Entry(Some(Char1("B")), Some(Char1("u")), Some(<< "c", "l", "o", "s", "e", "d", " ", "/", " ", "1", "0" >>), None)

P_open5 == Entry(Some(Char1("a")), Some(Char1("u")), Some(<< "o", "p", "e", "n", " ", "/", " ", "5" >>), Some(100))

P_open20 == Entry(Some(Char1("C")), None, Some(<< "o", "p", "e", "n", " ", "/", " ", "2", "0" >>), None)

P_open5B == Entry(Some(Char1("B")), None, Some(<< "O", "P", "E", "N", " ", "/", " ", "5" >>), None)

P_open == Entry(Some(Char1("b")), None, Some(<< "o", "p", "e", "n" >>), None)

P_open0 == Entry(Some(<< " ", "A", " " >>), None, Some(<< "o", "p", "e", "n", " ", "/", " ", "0" >>), None)

P_bare == Entry(None, None, None, None)

\* an open lot whose count is not a number, and one with a signed count
P_openX == Entry(Some(Char1("C")), None, Some(<< "o", "p", "e", "n", " ", "/", " ", "x" >>), None)

P_openNeg == Entry(Some(Char1("D")), None, Some(<< "o", "p", "e", "n", " ", "/", " ", "-", "1" >>), None)

\* publish times outside what line 64 converts
P_year10000 == Entry(Some(Char1("d")), None, Some(<< "o", "p", "e", "n", " ", "/", " ", "5" >>), Some(MaxDatetime + 2))

P_overflow == Entry(Some(Char1("e")), None, Some(<< "o", "p", "e", "n", " ", "/", " ", "5" >>), Some(MaxTimeT + 1))

FeedPool ==
    {P_closed10, P_open5, P_open5B, P_open20, P_open, P_open0, P_bare,
     P_openX, P_openNeg, P_year10000, P_overflow}

FeedBatches == UNION {[1..n -> FeedPool] : n \in 0..MaxEntries}

InitNorm ==
    /\ CacheIdle
    /\ utc_offset \in {0, 1}
    /\ desc = <<>>
    /\ parsed_desc = None
    /\ feed \in FeedBatches
    /\ normalized = None

\* lines 82-107: the entries are converted and sorted
NormalizeFeed ==
    /\ normalized = None
    /\ normalized' = Some(Normalize(feed, utc_offset))
    /\ UNCHANGED << cache_vars, utc_offset, desc, parsed_desc, feed >>

SpecNorm == InitNorm /\ [][NormalizeFeed]_vars

(***************************************************************************)
(* Properties of _parse_description (checked under SpecParse).             *)
(***************************************************************************)
IsStr(s) == \A i \in 1..Len(s) : \E k \in 1..Len(CodePoints) : CodePoints[k] = s[i]

\* the parts of desc as line 36 computes them
PartsOf(d) == LET raw == Split(d, "/") IN [i \in 1..Len(raw) |-> Strip(raw[i])]

\* C7: free_spaces, the second component of _parse_description, is either
\* absent (None) or a non-negative integer, for every input string.
C7_FreeSpacesNonNegative ==
    parsed_desc # None =>
        \/ parsed_desc[1].free = None
        \/ parsed_desc[1].free[1] >= 0

\* C10: _parse_description never fails: for every input string it raises no
\* exception and returns a defined pair (a string, and None or an integer).
C10_ParseDescriptionTotal ==
    parsed_desc # None =>
        /\ parsed_desc[1].exc = "none"
        /\ IsStr(parsed_desc[1].status)
        /\ Len(parsed_desc[1].free) <= 1
        /\ parsed_desc[1].free # None => parsed_desc[1].free[1] \in Int

\* C10's case: a description of two parts whose count is not a number has
\* been parsed (int() raised ValueError inside the function)
C10_Witness ==
    /\ parsed_desc # None
    /\ Len(PartsOf(desc)) = 2
    /\ PyInt(PartsOf(desc)[2]).exc = "ValueError"
    /\ parsed_desc[1].free = None

(***************************************************************************)
(* Properties of the normaliser (checked under SpecNorm).                  *)
(***************************************************************************)
IsOpen(x) == x.status = << "o", "p", "e", "n" >>

\* free_spaces with absent counted as -1
FreeOrMinusOne(x) ==
    IF x.free_spaces = None THEN 0 - 1 ELSE x.free_spaces[1]

\* a may stand before b in the order the specification describes
MayPrecede(a, b) ==
    /\ IsOpen(b) => IsOpen(a)
    /\ IsOpen(a) = IsOpen(b) => FreeOrMinusOne(a) >= FreeOrMinusOne(b)
    /\ (IsOpen(a) = IsOpen(b) /\ FreeOrMinusOne(a) = FreeOrMinusOne(b))
          => ~StrLess(Lower(b.name), Lower(a.name))

\* C9: every sequence get() returns after a fetch is ordered: lots whose
\* status is exactly "open" precede all others; within equal rank the lots
\* are in descending free_spaces (absent counted as -1), ties in ascending
\* lowercased name.
C9_SortedByCompositeKey ==
    (normalized # None /\ normalized[1].exc = "none") =>
        \A i, j \in 1..Len(normalized[1].lots) :
            i < j => MayPrecede(normalized[1].lots[i], normalized[1].lots[j])

\* C9's case: three lots were sorted, the sort moved them, and among them
\* are an open and a non-open lot and two open lots that tie on free_spaces
C9_Witness ==
    /\ normalized # None
    /\ normalized[1].exc = "none"
    /\ Len(normalized[1].lots) = 3
    /\ normalized[1].lots # ToParkingLots(feed, utc_offset).lots
    /\ IsOpen(normalized[1].lots[1])
    /\ IsOpen(normalized[1].lots[2])
    /\ ~IsOpen(normalized[1].lots[3])
    /\ FreeOrMinusOne(normalized[1].lots[1]) = FreeOrMinusOne(normalized[1].lots[2])
    /\ Lower(normalized[1].lots[1].name) # Lower(normalized[1].lots[2].name)

(***************************************************************************)
(* Properties of the cache.                                                *)
(***************************************************************************)
\* the request t has made its fetch (or the fetch raised)
Fetched(t) == pc[t] \in {"store_value", "store_expires", "miss", "raised"}

\* the request t is between its freshness check and the end of its store
Refreshing(t) == pc[t] \in {"fetch", "store_value", "store_expires"}

\* C1 (Spec): while one call is between its freshness check and its store,
\* no second call on the same cache starts another feed fetch.
C1_NoRedundantFetch ==
    [][\A t \in Threads :
          (pc[t] = "fetch" /\ pc'[t] # "fetch")
              => \A u \in Threads \ {t} : ~Refreshing(u)]_vars

\* C2 (Spec): value and expires_at change together for every observer: a
\* call that returns a cache hit returns the list that was stored together
\* with the expiry it judged the hit by.
C2_HitJudgedByOwnExpiry ==
    \A t \in Threads : pc[t] = "hit" => ret[t][1] = seen[t][1].src

\* C3 (Spec): an empty value is never returned as a cache hit (a get()
\* after an empty fetch retries instead).
C3_EmptyNeverHit ==
    \A t \in Threads : pc[t] = "hit" => heap[ret[t][1]] # <<>>

\* C3 for sequential calls: a get() that finds an empty stored value goes
\* on to fetch even before expires_at.
C3_SequentialRetry ==
    \A t \in Threads :
        (seen[t] # None /\ seen[t][1].stored = <<>>)
            => /\ pc[t] \notin {"return_value", "hit"}
               /\ Fetched(t) => nfetch[t] = 1

\* C4 (SpecSeq): a get() made strictly before expires_at while the stored
\* value is non-empty performs no fetch, returns the identical stored
\* sequence and leaves value and expires_at unchanged.
C4_HitWithinTtl ==
    \A t \in Threads :
        (/\ seen[t] # None
         /\ now[t][1] < seen[t][1].expires_at
         /\ seen[t][1].stored # <<>>)
            => /\ pc[t] \in {"check_value", "return_value", "hit"}
               /\ nfetch[t] = 0
               /\ value = seen[t][1].value
               /\ heap[value] = seen[t][1].stored
               /\ expires_at = seen[t][1].expires_at
               /\ pc[t] = "hit" => ret[t] = Some(seen[t][1].value)

\* C4's case: a call returned a hit for a non-empty stored value
C4_Witness ==
    \E t \in Threads :
        /\ pc[t] = "hit"
        /\ now[t][1] < seen[t][1].expires_at
        /\ seen[t][1].stored # <<>>
        /\ ret[t] = Some(value)

\* C5 (SpecSeq): a get() made when the current time is not before
\* expires_at (the boundary included) makes exactly one new fetch and
\* returns the newly fetched sequence, not the previously cached one.
C5_MissAfterTtl ==
    \A t \in Threads :
        (seen[t] # None /\ now[t][1] >= seen[t][1].expires_at)
            => /\ pc[t] \in {"fetch", "store_value", "store_expires",
                             "miss", "raised"}
               /\ nfetch[t] = IF Fetched(t) THEN 1 ELSE 0
               /\ pc[t] = "miss" =>
                    /\ ret[t] = lots[t]
                    /\ ret[t][1] # seen[t][1].value
                    /\ value = ret[t][1]
                    /\ heap[ret[t][1]]
                         = Normalize(parsed[t][1], utc_offset).lots

\* C5's case: a call made exactly at expires_at, with a non-empty value
\* cached by an earlier fetch, has fetched and returned
C5_Witness ==
    \E t \in Threads :
        /\ pc[t] = "miss"
        /\ now[t][1] = seen[t][1].expires_at
        /\ seen[t][1].stored # <<>>
        /\ seen[t][1].value # InitRef

\* C6 (SpecSeq): a get() on a cache still in its constructed state
\* (expires_at = 0, value the empty list of __init__) never returns a hit
\* and makes exactly one fetch, whatever ttl_seconds and the clock are.
C6_ColdGetFetches ==
    \A t \in Threads :
        (/\ seen[t] # None
         /\ seen[t][1].src = InitRef
         /\ seen[t][1].value = InitRef)
            => /\ seen[t][1].expires_at = 0
               /\ seen[t][1].stored = <<>>
               /\ pc[t] \notin {"return_value", "hit"}
               /\ nfetch[t] = IF Fetched(t) THEN 1 ELSE 0

\* C6's case: the first call read a clock before 0 (so the expiry test of
\* line 78 passed) and has fetched and returned
C6_Witness ==
    \E t \in Threads :
        /\ pc[t] = "miss"
        /\ seen[t][1].src = InitRef
        /\ seen[t][1].value = InitRef
        /\ now[t][1] < 0
        /\ nalloc = 1

\* C8 (SpecClient): the cached value and expires_at change only in the
\* store steps of get(), whatever else a caller does.
C8_OnlyRefreshMutates ==
    [][(\/ value' # value
        \/ heap'[value'] # heap[value]
        \/ expires_at' # expires_at)
          => \E t \in Threads :
                 /\ pc[t] \in {"store_value", "store_expires"}
                 /\ pc'[t] # pc[t]]_vars

(***************************************************************************)
(* Properties of the conversion of the publish time (checked under         *)
(* SpecNorm).                                                              *)
(***************************************************************************)
\* the entries of the batch whose publish time is present
Published(batch) ==
    {i \in 1..Len(batch) : batch[i].published_parsed # None}

\* the entries of the batch whose present publish time line 64 cannot convert
Unconvertible(batch, offset) ==
    {i \in Published(batch) : _parse_dt(batch[i], offset).exc # "none"}

\* C11: the publish time never makes the conversion raise: the batch is
\* converted without an exception, and exactly the entries with a present,
\* convertible publish time get an updated_at; the others (absent publish
\* time, or a conversion that fails) get none
C11_PublishTimeNeverRaises ==
    normalized # None =>
        /\ normalized[1].exc = "none"
        /\ Cardinality({i \in 1..Len(normalized[1].lots) :
                           normalized[1].lots[i].updated_at # None})
             = Cardinality(Published(feed) \ Unconvertible(feed, utc_offset))

(***************************************************************************)
(* Properties of the conversion of a batch (checked under SpecNorm).       *)
(***************************************************************************)
\* the ParkingLot the entry stands for: absent title and link read as "",
\* an absent description as status "unknown" without a count
ExpectedLot(e, offset) ==
    [name |-> IF e.title = None THEN <<>> ELSE Strip(e.title[1]),
     link |-> IF e.link = None THEN <<>> ELSE Strip(e.link[1]),
     status |-> IF e.description = None THEN unknown
                ELSE _parse_description(e.description[1]).status,
     free_spaces |-> IF e.description = None THEN None
                     ELSE _parse_description(e.description[1]).free,
     updated_at |-> _parse_dt(e, offset).dt]

\* how often x occurs in the sequence
Count(seq, x) == Cardinality({i \in 1..Len(seq) : seq[i] = x})

\* the lots are a rearrangement of the lots the entries stand for
OneLotPerEntry(batch, offset, lotseq) ==
    /\ Len(lotseq) = Len(batch)
    /\ \A i \in 1..Len(batch) :
         LET x == ExpectedLot(batch[i], offset)
         IN  Count(lotseq, x)
               = Cardinality({j \in 1..Len(batch) :
                                 ExpectedLot(batch[j], offset) = x})

\* C12: no absent or malformed field of an entry aborts the conversion:
\* every batch gives one lot per entry, a rearrangement of the entries'
\* own conversions, and the empty batch gives the empty sequence
C12_OneLotPerEntry ==
    normalized # None =>
        /\ normalized[1].exc = "none"
        /\ OneLotPerEntry(feed, utc_offset, normalized[1].lots)
        /\ (feed = <<>> => normalized[1].lots = <<>>)

\* the same for the batches whose present publish times are all convertible
C12_ConvertibleBatches ==
    normalized # None /\ Unconvertible(feed, utc_offset) = {} =>
        /\ normalized[1].exc = "none"
        /\ OneLotPerEntry(feed, utc_offset, normalized[1].lots)
        /\ (feed = <<>> => normalized[1].lots = <<>>)

(***************************************************************************)
(* The parser of descriptions as the specification words it, to compare    *)
(* with _parse_description (checked under SpecParse).                      *)
(***************************************************************************)
\* the text without its leading and trailing whitespace
RefTrim(s) ==
    LET inked == {i \in 1..Len(s) : ~IsSpace(s[i])}
    IN  IF inked = {} THEN <<>>
        ELSE SubSeq(s, CHOOSE i \in inked : \A j \in inked : i <= j,
                       CHOOSE i \in inked : \A j \in inked : j <= i)

RefSlashes(s) == {i \in 1..Len(s) : s[i] = "/"}

\* the pair (status, free_spaces) the specification gives for the text
RefParse(s) ==
    IF s = <<>>
    THEN [status |-> unknown, free |-> None]
    ELSE IF Cardinality(RefSlashes(s)) # 1
    THEN LET whole == Lower(RefTrim(s))
         IN  [status |-> IF whole = <<>> THEN unknown ELSE whole,
              free |-> None]
    ELSE LET k == CHOOSE i \in RefSlashes(s) : TRUE
             first == SubSeq(s, 1, k - 1)
             second == SubSeq(s, k + 1, Len(s))
             count == PyInt(RefTrim(second))
         IN  [status |-> IF \E i \in 1..(Len(first) - 1) :
                                first[i] = "?" /\ first[i + 1] = "?"
                         THEN unknown
                         ELSE Lower(RefTrim(first)),
              free |-> IF count.exc = "none" THEN Some(count.val) ELSE None]

\* C13: for every input string _parse_description returns, and returns the
\* pair of the specification's parser: ("unknown", None) for the empty
\* string, the trimmed lowercased whole string (or "unknown") without a
\* count unless there is exactly one "/", else the trimmed lowercased first
\* part ("unknown" if it contains "??") and the integer value of the second
\* part, None when it is not an integer
C13_EqualsReferenceParser ==
    parsed_desc # None =>
        /\ parsed_desc[1].exc = "none"
        /\ parsed_desc[1].status = RefParse(desc).status
        /\ parsed_desc[1].free = RefParse(desc).free

\* "??/4" has been parsed: two parts, the override to "unknown" and a count
C13_Witness ==
    /\ desc = << "?", "?", "/", "4" >>
    /\ parsed_desc # None
    /\ parsed_desc[1].status = unknown
    /\ parsed_desc[1].free = Some(4)

(***************************************************************************)
(* The place of lots without a count in the sorted sequence (checked       *)
(* under SpecNorm).                                                        *)
(***************************************************************************)
\* C14: in the sorted sequence, among lots of the same open-rank, a lot
\* without free_spaces stands after every lot that reports 0 or more, and
\* two lots without free_spaces stand in the order of their lowercased names
C14_AbsentCountLast ==
    normalized # None /\ normalized[1].exc = "none" =>
        LET ls == normalized[1].lots
        IN  \A i, j \in 1..Len(ls) :
              IsOpen(ls[i]) = IsOpen(ls[j]) /\ ls[i].free_spaces = None =>
                /\ (ls[j].free_spaces # None /\ ls[j].free_spaces[1] >= 0
                      => j < i)
                /\ (ls[j].free_spaces = None /\ i < j
                      => ~StrLess(Lower(ls[j].name), Lower(ls[i].name)))

\* the batch C, b, " A " of open lots has been sorted: the lot with 0 free
\* spaces first, then the two without a count as b, C
C14_Witness ==
    /\ feed = << P_openX, P_open, P_open0 >>
    /\ normalized # None
    /\ normalized[1].exc = "none"
    /\ Len(normalized[1].lots) = 3
    /\ normalized[1].lots[1].free_spaces = Some(0)
    /\ normalized[1].lots[2].free_spaces = None
    /\ normalized[1].lots[2].name = Char1("b")
    /\ normalized[1].lots[3].free_spaces = None
    /\ normalized[1].lots[3].name = Char1("C")

(***************************************************************************)
(* The store of a call that missed (lines 109-111).                        *)
(***************************************************************************)
\* C16 (Spec): at the moment a get() that missed returns, value is the
\* sequence it returns and expires_at is the time the call read at its
\* start plus ttl_seconds, so that both fields describe the call's fetch.
C16_MissStoresOwnFetch ==
    [][\A t \in Threads :
          (pc[t] = "store_expires" /\ pc'[t] = "miss")
              => /\ value' = ret'[t][1]
                 /\ expires_at' = now[t][1] + ttl_seconds]_vars

(***************************************************************************)
(* The status token (checked under SpecParse).                             *)
(***************************************************************************)
\* C17: the status _parse_description gives is never the empty string and
\* has no uppercase character, whatever the input string is.
C17_StatusNonEmptyLowercase ==
    parsed_desc # None =>
        /\ parsed_desc[1].status # <<>>
        /\ \A i \in 1..Len(parsed_desc[1].status) :
              ~IsUpper(parsed_desc[1].status[i])

\* the half of C17 that holds: no uppercase character in the status
C17_StatusLowercase ==
    parsed_desc # None =>
        \A i \in 1..Len(parsed_desc[1].status) :
            ~IsUpper(parsed_desc[1].status[i])

(***************************************************************************)
(* The rate of fetches (checked under SpecSeq: calls that do not overlap,  *)
(* a clock that never goes back).                                          *)
(***************************************************************************)
\* C18 (SpecSeq): with ttl_seconds > 0, after a fetch that yielded at least
\* one lot, the call that does the next fetch starts no earlier than
\* ttl_seconds after the start of the call that did that fetch; only after a
\* fetch without a lot may the next one come sooner.
C18_FetchRateGated ==
    ttl_seconds > 0 =>
        \A i \in 1..(Len(fetch_log) - 1) :
            fetch_log[i].n > 0 =>
                fetch_log[i + 1].start >= fetch_log[i].start + ttl_seconds

\* C18's case: a fetch that yielded a lot has been followed by another fetch
C18_Witness ==
    /\ ttl_seconds > 0
    /\ Len(fetch_log) >= 2
    /\ fetch_log[1].n > 0
    /\ \E t \in Threads : pc[t] = "miss" /\ lots[t] = Some(fetch_log[2].ref)

\* the other half of C18: after an empty result the next call refetches
\* before ttl_seconds have passed
C18_EarlyRefetchAfterEmpty ==
    /\ ttl_seconds > 0
    /\ Len(fetch_log) >= 2
    /\ fetch_log[1].n = 0
    /\ fetch_log[2].start < fetch_log[1].start + ttl_seconds

(***************************************************************************)
(* The age of what a cache hit returns (checked under Spec).               *)
(***************************************************************************)
\* the start time of the get() call whose fetch made the list r
StartOf(r) ==
    fetch_log[CHOOSE i \in 1..Len(fetch_log) : fetch_log[i].ref = r].start

\* C19 (Spec): whatever the interleaving of the calls, the sequence a get()
\* returns as a cache hit at time now was stored by a call that started
\* strictly after now - ttl_seconds.
C19_BoundedStaleness ==
    \A t \in Threads :
        (pc[t] = "hit" /\ ret[t][1] # InitRef)
            => StartOf(ret[t][1]) > now[t][1] - ttl_seconds

(***************************************************************************)
(* A get() that ends with an exception (checked under SpecSeq).            *)
(***************************************************************************)
\* C20 (SpecSeq): when a get() that missed ends with an exception, raised by
\* the fetch or by the conversion of an entry, value, the stored sequence
\* and expires_at are what they were when the call began.
C20_RaiseLeavesCache ==
    \A t \in Threads :
        pc[t] = "raised"
            => /\ value = seen[t][1].value
               /\ heap[value] = seen[t][1].stored
               /\ expires_at = seen[t][1].expires_at
               /\ expires_src = seen[t][1].src

\* C20's case: a call found an earlier, non-empty sequence expired, and the
\* conversion of the batch it fetched raised
C20_Witness ==
    \E t \in Threads :
        /\ pc[t] = "raised"
        /\ parsed[t] # None
        /\ seen[t][1].value # InitRef
        /\ seen[t][1].stored # <<>>
        /\ heap[value] = seen[t][1].stored

\* the same with the exception raised by the fetch itself
C20_FetchRaised ==
    \E t \in Threads :
        /\ pc[t] = "raised"
        /\ parsed[t] = None
        /\ seen[t][1].stored # <<>>
        /\ heap[value] = seen[t][1].stored

\* C20 for overlapping calls: the step on which a get() raises changes
\* neither value, nor the stored sequence, nor expires_at
C20_RaisingStepStoresNothing ==
    [][\A t \in Threads :
          (pc[t] # "raised" /\ pc'[t] = "raised")
              => /\ value' = value
                 /\ heap'[value'] = heap[value]
                 /\ expires_at' = expires_at]_vars

====
